---- MODULE Spec2Model ----
(***************************************************************************)
(* express-messagely: the User model (models/user.js) and the auth routes  *)
(* (POST /login, POST /register).                                          *)
(*                                                                         *)
(* The relational store is modelled by two tables, users and messages,     *)
(* each a set of rows.  Every `await db.query(...)` is one atomic step; a  *)
(* handler is a sequence of such steps and other requests may run between  *)
(* two of its awaits.  current_timestamp is the value of clock at the step *)
(* that runs the statement; the clock never goes back.                     *)
(*                                                                         *)
(* Spec     the two routes run by concurrent requests, plus direct calls   *)
(*          of User.updateLoginTimestamp.                                  *)
(* DirSpec  sequential calls of the User model's methods (register, get,   *)
(*          all, messagesFrom, messagesTo, updateLoginTimestamp) and the   *)
(*          creation of messages.                                          *)
(***************************************************************************)
EXTENDS Integers, Sequences, FiniteSets, TLC

\* ------------------------------------------------------------- bounds
\* Concurrent requests in flight.
NumRequests == 2
\* The clock runs from 0 to MaxClock.
MaxClock == 1
\* Rows the messages table may hold.
MaxMessages == 2

Requests == 1..NumRequests

\* ------------------------------------------------------------- inputs
\* Request bodies {username, password, first_name, last_name, phone}.
\* The bodies the routes are called with share the username "alice": two
\* differ in every other field, the third has an empty password.
Body(u, pw, fn, ln, ph) ==
    [username |-> u, password |-> pw, first_name |-> fn, last_name |-> ln, phone |-> ph]

AliceBody == Body("alice", "secret1", "Alice", "Lee", "555-0001")
AliceBody2 == Body("alice", "secret2", "Alicia", "Ng", "555-0002")
BobBody == Body("bob", "secret2", "Bob", "Roe", "555-0003")
AliceNoPassword == Body("alice", "", "Al", "Li", "555-0009")

NoBody == Body("", "", "", "", "")

Bodies == {AliceBody, AliceBody2, AliceNoPassword}
DirBodies == {AliceBody, BobBody}
Usernames == {b.username : b \in Bodies}
AllUsernames == {b.username : b \in Bodies \cup DirBodies}
DirUsernames == {b.username : b \in DirBodies} \cup {"carol"}

VARIABLES
    users,      \* the users table: a set of rows
    messages,   \* the messages table: a set of rows
    nextId,     \* the messages table's serial id
    clock,      \* the store's clock (current_timestamp)
    pc,         \* per request: the await the handler is parked at
    req,        \* per request: req.body
    hashed,     \* per request: register's hashedPassword
    user,       \* per request: authenticate's result.rows (at most one row)
    tokens,     \* the payloads of the tokens the routes have answered with
    regOk,      \* history: per username, the passwords of the successful registrations
    ret         \* the last User.* call that ended: what it returned or threw

vars == <<users, messages, nextId, clock, pc, req, hashed, user, tokens, regOk, ret>>

\* ------------------------------------------------------------- bcrypt
\* bcrypt.hash: a one-way digest, never the plaintext itself.
bcrypt_hash(password) == "$2b$" \o password

\* bcrypt.compare(data, encrypted).
bcrypt_compare(password, encrypted) == encrypted = bcrypt_hash(password)

\* JavaScript values the handlers pass around.
JsUndefined == [js |-> "undefined"]
JsBool(b) == [js |-> "boolean", bool |-> b]
JsObject(o) == [js |-> "object", object |-> o]
JsArray(a) == [js |-> "array", items |-> a]

\* JavaScript truthiness: an object or an array (also an empty one) is truthy,
\* undefined is not.
Truthy(v) ==
    CASE v.js = "undefined" -> FALSE
      [] v.js = "boolean" -> v.bool
      [] OTHER -> TRUE

\* ------------------------------------------------------------- the store
\* users(username PRIMARY KEY, ...): an INSERT of a username the table already
\* holds is refused by the store (unique_violation).
users_pkey_violated(us, username) == \E r \in us : r.username = username

\* messages(from_username REFERENCES users, to_username REFERENCES users).
messages_fkey_violated(us, from_username, to_username) ==
    ~ ((\E r \in us : r.username = from_username) /\ (\E r \in us : r.username = to_username))

\* SELECT * FROM users WHERE username = u.
RowsOf(us, u) == {r \in us : r.username = u}

\* RETURNING / SELECT of the columns cols of one row.
Columns(row, cols) == [c \in cols |-> row[c]]

\* The values a call ends with: a returned value, or a thrown error.
Returned(v) == [threw |-> FALSE, value |-> v]
Threw(e) == [threw |-> TRUE, value |-> e]
NoCall == [op |-> "none"]
ExpressError(message, status) == [kind |-> "ExpressError", message |-> message, status |-> status]
UniqueViolation(username) == [kind |-> "unique_violation", message |-> username]

\* All the orders a store may return the rows S in.
Orderings(S) ==
    {f \in [1..Cardinality(S) -> S] : \A i, j \in 1..Cardinality(S) : i # j => f[i] # f[j]}

\* ------------------------------------------------------------- User
\* Mutant of register: INSERT ... ON CONFLICT (username) DO UPDATE, which
\* overwrites the row a username already has.
register_upsert(us, body, hashedPassword, now) ==
    LET row == [username |-> body.username,
                password |-> hashedPassword,
                first_name |-> body.first_name,
                last_name |-> body.last_name,
                phone |-> body.phone,
                join_at |-> now,
                last_login_at |-> now]
    IN [users |-> (us \ RowsOf(us, body.username)) \cup {row},
        outcome |-> Returned(JsObject(Columns(row,
            {"username", "password", "first_name", "last_name", "phone"})))]

\* Mutant of register: the INSERT is given password, not hashedPassword.
register_plaintext(us, body, hashedPassword, now) ==
    IF users_pkey_violated(us, body.username)
    THEN [users |-> us, outcome |-> Threw(UniqueViolation(body.username))]
    ELSE LET row == [username |-> body.username,
                     password |-> body.password,
                     first_name |-> body.first_name,
                     last_name |-> body.last_name,
                     phone |-> body.phone,
                     join_at |-> now,
                     last_login_at |-> now]
         IN [users |-> us \cup {row},
             outcome |-> Returned(JsObject(Columns(row,
                 {"username", "password", "first_name", "last_name", "phone"})))]

\* User.register, the INSERT ... RETURNING of lines 35-49 run at time now with
\* the hash of line 34: the table after it, and what the call ends with.
register(us, body, hashedPassword, now) ==
    IF users_pkey_violated(us, body.username)
    THEN [users |-> us, outcome |-> Threw(UniqueViolation(body.username))]
    ELSE LET row == [username |-> body.username,
                     password |-> hashedPassword,
                     first_name |-> body.first_name,
                     last_name |-> body.last_name,
                     phone |-> body.phone,
                     join_at |-> now,
                     last_login_at |-> now]
         IN [users |-> us \cup {row},
             outcome |-> Returned(JsObject(Columns(row,
                 {"username", "password", "first_name", "last_name", "phone"})))]

\* User.authenticate's SELECT: result.rows, in every order the store may give.
authenticate_rows(us, username) ==
    Orderings({Columns(r, {"username", "password"}) : r \in {x \in us : x.username = username}})

\* User.authenticate after the SELECT: user = rows[0]; true when the user is
\* there and bcrypt.compare says so; otherwise the function ends without a
\* return statement.
authenticate(rows, password) ==
    IF Len(rows) > 0 /\ bcrypt_compare(password, rows[1].password)
    THEN JsBool(TRUE)
    ELSE JsUndefined

\* Mutant of updateLoginTimestamp: SET join_at = current_timestamp.
updateLoginTimestamp_join_at(us, username, now) ==
    LET hit == {r \in us : r.username = username}
        updated == {[r EXCEPT !.join_at = now] : r \in hit}
    IN IF hit = {}
       THEN [users |-> us,
             outcome |-> Threw(ExpressError("No such user", 404))]
       ELSE [users |-> (us \ hit) \cup updated,
             outcome |-> Returned(JsObject(Columns(CHOOSE r \in updated : TRUE,
                                                   {"username", "last_login_at"})))]

\* User.updateLoginTimestamp: UPDATE ... RETURNING username, last_login_at.
updateLoginTimestamp(us, username, now) ==
    LET hit == {r \in us : r.username = username}
        updated == {[r EXCEPT !.last_login_at = now] : r \in hit}
    IN IF hit = {}
       THEN [users |-> us,
             outcome |-> Threw(ExpressError("No such user", 404))]
       ELSE [users |-> (us \ hit) \cup updated,
             outcome |-> Returned(JsObject(Columns(CHOOSE r \in updated : TRUE,
                                                   {"username", "last_login_at"})))]

\* The public profile columns, and the columns User.get selects.
ProfileColumns == {"username", "first_name", "last_name", "phone"}
GetColumns == ProfileColumns \cup {"join_at", "last_login_at"}

\* Mutant of all: the check is rows.length === 0, which rejects an empty table.
all_rejects_empty(us) ==
    {LET rows == JsArray([i \in 1..Len(o) |-> Columns(o[i], ProfileColumns)])
     IN IF Len(rows.items) = 0
        THEN Threw(ExpressError("No users", 404))
        ELSE Returned(rows)
     : o \in Orderings(us)}

\* User.all: SELECT username, first_name, last_name, phone FROM users; the
\* rows are an array, which `!user` never rejects.  Every outcome the store's
\* row order allows.
all(us) ==
    {LET rows == JsArray([i \in 1..Len(o) |-> Columns(o[i], ProfileColumns)])
     IN IF ~ Truthy(rows)
        THEN Threw(ExpressError("No users", 404))
        ELSE Returned(rows)
     : o \in Orderings(us)}

\* Mutant of get: the SELECT has no WHERE clause.
get_any(us, username) ==
    {IF Len(o) = 0
     THEN Threw(ExpressError("No such user", 404))
     ELSE Returned(JsObject(Columns(o[1], GetColumns)))
     : o \in Orderings(us)}

\* User.get: SELECT ... WHERE username = $1; user = rows[0]; 404 when there is
\* none.
get(us, username) ==
    {IF Len(o) = 0
     THEN Threw(ExpressError("No such user", 404))
     ELSE Returned(JsObject(Columns(o[1], GetColumns)))
     : o \in Orderings(RowsOf(us, username))}

\* FROM messages AS m JOIN users AS f ON m.from_username = f.username
\*                    JOIN users AS t ON m.to_username = t.username
Join(us, ms) ==
    {j \in [m : ms, f : us, t : us] :
        j.m.from_username = j.f.username /\ j.m.to_username = j.t.username}

\* One row of the SELECT: the message's columns and the columns of the user
\* the query takes the profile from.
MessageRow(m, u) ==
    [id |-> m.id, body |-> m.body, sent_at |-> m.sent_at, read_at |-> m.read_at,
     username |-> u.username, first_name |-> u.first_name,
     last_name |-> u.last_name, phone |-> u.phone]

\* The object the loops of messagesFrom and messagesTo build from a row.
Mess(row, key) ==
    [c \in {"id", "body", "sent_at", "read_at", key} |->
        IF c = key THEN Columns(row, ProfileColumns) ELSE row[c]]

\* Mutant of messagesFrom: the check is `!messages`, which an array passes.
messagesFrom_unchecked(us, ms, username) ==
    {LET rows == [i \in 1..Len(o) |-> MessageRow(o[i].m, o[i].t)]
     IN IF ~ Truthy(JsArray(rows))
        THEN Threw(ExpressError("No messages from this user", 404))
        ELSE Returned(JsArray([i \in 1..Len(rows) |-> Mess(rows[i], "to_user")]))
     : o \in Orderings({j \in Join(us, ms) : j.m.from_username = username})}

\* User.messagesFrom: the join WHERE m.from_username = $1, with t's profile;
\* 404 when messages[0] is missing, else the array of {..., to_user}.
messagesFrom(us, ms, username) ==
    {LET rows == [i \in 1..Len(o) |-> MessageRow(o[i].m, o[i].t)]
     IN IF Len(rows) = 0
        THEN Threw(ExpressError("No messages from this user", 404))
        ELSE Returned(JsArray([i \in 1..Len(rows) |-> Mess(rows[i], "to_user")]))
     : o \in Orderings({j \in Join(us, ms) : j.m.from_username = username})}

\* Mutant of messagesTo: the SELECT takes t's columns, as messagesFrom does.
messagesTo_recipient(us, ms, username) ==
    {LET rows == [i \in 1..Len(o) |-> MessageRow(o[i].m, o[i].t)]
     IN IF Len(rows) = 0
        THEN Threw(ExpressError("No messages to this user", 404))
        ELSE Returned(JsArray([i \in 1..Len(rows) |-> Mess(rows[i], "from_user")]))
     : o \in Orderings({j \in Join(us, ms) : j.m.to_username = username})}

\* User.messagesTo: the join WHERE m.to_username = $1, with f's profile; 404
\* when messages[0] is missing, else the array of {..., from_user}.
messagesTo(us, ms, username) ==
    {LET rows == [i \in 1..Len(o) |-> MessageRow(o[i].m, o[i].f)]
     IN IF Len(rows) = 0
        THEN Threw(ExpressError("No messages to this user", 404))
        ELSE Returned(JsArray([i \in 1..Len(rows) |-> Mess(rows[i], "from_user")]))
     : o \in Orderings({j \in Join(us, ms) : j.m.to_username = username})}

\* The send operation: one row INSERTed into messages with the next id,
\* sent_at = current_timestamp and read_at NULL; the store refuses a username
\* that is not in users.
create(us, ms, id, from_username, to_username, body, now) ==
    IF messages_fkey_violated(us, from_username, to_username)
    THEN [messages |-> ms, outcome |-> Threw([kind |-> "foreign_key_violation"])]
    ELSE LET row == [id |-> id, from_username |-> from_username,
                     to_username |-> to_username, body |-> body,
                     sent_at |-> now, read_at |-> "null"]
         IN [messages |-> ms \cup {row}, outcome |-> Returned(JsObject(row))]

\* jwt.sign({ username }, SECRET_KEY): the payload the token carries.
jwt_sign(username) == [username |-> username]

\* ------------------------------------------------------------- Init
Init ==
    /\ users = {}
    /\ messages = {}
    /\ nextId = 1
    /\ clock = 0
    /\ pc = [p \in Requests |-> "idle"]
    /\ req = [p \in Requests |-> NoBody]
    /\ hashed = [p \in Requests |-> ""]
    /\ user = [p \in Requests |-> <<>>]
    /\ tokens = {}
    /\ regOk = [u \in AllUsernames |-> <<>>]
    /\ ret = NoCall

\* A request is over: the route has answered with a token (issued), with 400
\* Invalid user/password (rejected), or has handed a thrown error to next();
\* a direct call has returned or thrown.
Over == {"issued", "rejected", "error", "returned", "threw"}

\* What a User.* call ended with.
Call(op, arg, outcome) == [op |-> op, arg |-> arg, outcome |-> outcome]

\* The store's clock advances.
Tick ==
    /\ clock < MaxClock
    /\ clock' = clock + 1
    /\ UNCHANGED <<users, messages, nextId, pc, req, hashed, user, tokens, regOk, ret>>

\* ------------------------------------------------------------- POST /login
\* The handler reads req.body, calls User.authenticate, and authenticate's
\* SELECT returns.  With no row authenticate ends at once and the route throws
\* 400 Invalid user/password.
LoginQuery(p, b) ==
    /\ pc[p] = "idle"
    /\ req' = [req EXCEPT ![p] = b]
    /\ \E rows \in authenticate_rows(users, b.username) :
         IF Len(rows) > 0
         THEN /\ user' = [user EXCEPT ![p] = rows]
              /\ pc' = [pc EXCEPT ![p] = "auth_compare"]
              /\ UNCHANGED ret
         ELSE /\ ret' = Call("authenticate", Columns(b, {"username", "password"}),
                          Returned(authenticate(rows, b.password)))
              /\ pc' = [pc EXCEPT ![p] =
                          IF Truthy(authenticate(rows, b.password)) THEN "stamp" ELSE "rejected"]
              /\ UNCHANGED user
    /\ UNCHANGED <<users, messages, nextId, clock, hashed, tokens, regOk>>

\* Mutant of AuthCompare: the route does not branch on authenticate's result.
AuthCompare_unchecked(p) ==
    /\ pc[p] = "auth_compare"
    /\ ret' = Call("authenticate", Columns(req[p], {"username", "password"}),
                   Returned(authenticate(user[p], req[p].password)))
    /\ pc' = [pc EXCEPT ![p] = "stamp"]
    /\ user' = [user EXCEPT ![p] = <<>>]
    /\ UNCHANGED <<users, messages, nextId, clock, req, hashed, tokens, regOk>>

\* bcrypt.compare returns, authenticate returns, and the route branches on
\* its result.
AuthCompare(p) ==
    /\ pc[p] = "auth_compare"
    /\ LET r == authenticate(user[p], req[p].password)
       IN /\ ret' = Call("authenticate", Columns(req[p], {"username", "password"}), Returned(r))
          /\ pc' = [pc EXCEPT ![p] = IF Truthy(r) THEN "stamp" ELSE "rejected"]
    /\ user' = [user EXCEPT ![p] = <<>>]
    /\ UNCHANGED <<users, messages, nextId, clock, req, hashed, tokens, regOk>>

\* ------------------------------------------------------------- POST /register
\* The handler reads req.body, calls User.register, and bcrypt.hash returns.
RegisterHash(p, b) ==
    /\ pc[p] = "idle"
    /\ req' = [req EXCEPT ![p] = b]
    /\ hashed' = [hashed EXCEPT ![p] = bcrypt_hash(b.password)]
    /\ pc' = [pc EXCEPT ![p] = "reg_insert"]
    /\ UNCHANGED <<users, messages, nextId, clock, user, tokens, regOk, ret>>

\* The INSERT returns or throws; register returns result.rows[0] and the
\* route branches on it.
RegisterInsert(p) ==
    /\ pc[p] = "reg_insert"
    /\ LET r == register(users, req[p], hashed[p], clock)
       IN /\ users' = r.users
          /\ ret' = Call("register", req[p], r.outcome)
          /\ IF r.outcome.threw
             THEN /\ pc' = [pc EXCEPT ![p] = "error"]
                  /\ UNCHANGED regOk
             ELSE /\ regOk' = [regOk EXCEPT ![req[p].username] = Append(@, req[p].password)]
                  /\ pc' = [pc EXCEPT ![p] =
                              IF Truthy(r.outcome.value) THEN "stamp" ELSE "rejected"]
    /\ hashed' = [hashed EXCEPT ![p] = ""]
    /\ UNCHANGED <<messages, nextId, clock, req, user, tokens>>

\* ------------------------------------------------------------- both routes
\* await User.updateLoginTimestamp(username) returns or throws.
Stamp(p) ==
    /\ pc[p] = "stamp"
    /\ LET r == updateLoginTimestamp(users, req[p].username, clock)
       IN /\ users' = r.users
          /\ ret' = Call("updateLoginTimestamp", req[p].username, r.outcome)
          /\ pc' = [pc EXCEPT ![p] = IF r.outcome.threw THEN "error" ELSE "sign"]
    /\ UNCHANGED <<messages, nextId, clock, req, hashed, user, tokens, regOk>>

\* jwt.sign and res.json({ token }).
IssueToken(p) ==
    /\ pc[p] = "sign"
    /\ tokens' = tokens \cup {jwt_sign(req[p].username)}
    /\ pc' = [pc EXCEPT ![p] = "issued"]
    /\ UNCHANGED <<users, messages, nextId, clock, req, hashed, user, regOk, ret>>

\* ------------------------------------------------------------- direct calls
\* User.updateLoginTimestamp(username) called on its own: its UPDATE returns,
\* and the call returns the row or throws.
TouchLogin(p, u) ==
    /\ pc[p] = "idle"
    /\ req' = [req EXCEPT ![p] = [NoBody EXCEPT !.username = u]]
    /\ LET r == updateLoginTimestamp(users, u, clock)
       IN /\ users' = r.users
          /\ ret' = Call("updateLoginTimestamp", u, r.outcome)
          /\ pc' = [pc EXCEPT ![p] = IF r.outcome.threw THEN "threw" ELSE "returned"]
    /\ UNCHANGED <<messages, nextId, clock, hashed, user, tokens, regOk>>

\* The caller has its answer; the next request may arrive.
Close(p) ==
    /\ pc[p] \in Over
    /\ pc' = [pc EXCEPT ![p] = "idle"]
    /\ req' = [req EXCEPT ![p] = NoBody]
    /\ UNCHANGED <<users, messages, nextId, clock, hashed, user, tokens, regOk, ret>>

Next ==
    \/ Tick
    \/ \E p \in Requests, b \in Bodies : LoginQuery(p, b)
    \/ \E p \in Requests : AuthCompare(p)
    \/ \E p \in Requests, b \in Bodies : RegisterHash(p, b)
    \/ \E p \in Requests : RegisterInsert(p)
    \/ \E p \in Requests : Stamp(p)
    \/ \E p \in Requests : IssueToken(p)
    \/ \E p \in Requests, u \in Usernames : TouchLogin(p, u)
    \/ \E p \in Requests : Close(p)

Spec == Init /\ [][Next]_vars

\* ------------------------------------------------------------- DirSpec
\* User.register(body), the whole call.
Register(b) ==
    /\ LET r == register(users, b, bcrypt_hash(b.password), clock)
       IN /\ users' = r.users
          /\ ret' = Call("register", b, r.outcome)
          /\ regOk' = IF r.outcome.threw THEN regOk
                      ELSE [regOk EXCEPT ![b.username] = Append(@, b.password)]
    /\ UNCHANGED <<messages, nextId, clock, pc, req, hashed, user, tokens>>

\* User.updateLoginTimestamp(u), the whole call.
UpdateLoginTimestamp(u) ==
    /\ LET r == updateLoginTimestamp(users, u, clock)
       IN /\ users' = r.users
          /\ ret' = Call("updateLoginTimestamp", u, r.outcome)
    /\ UNCHANGED <<messages, nextId, clock, pc, req, hashed, user, tokens, regOk>>

\* A message from one username to another is sent.
Send(from_username, to_username) ==
    /\ Cardinality(messages) < MaxMessages
    /\ LET r == create(users, messages, nextId, from_username, to_username, "hi", clock)
       IN /\ messages' = r.messages
          /\ nextId' = IF r.outcome.threw THEN nextId ELSE nextId + 1
          /\ ret' = Call("create", <<from_username, to_username>>, r.outcome)
    /\ UNCHANGED <<users, clock, pc, req, hashed, user, tokens, regOk>>

\* User.all().
All ==
    /\ \E o \in all(users) : ret' = Call("all", "", o)
    /\ UNCHANGED <<users, messages, nextId, clock, pc, req, hashed, user, tokens, regOk>>

\* User.get(u).
Get(u) ==
    /\ \E o \in get(users, u) : ret' = Call("get", u, o)
    /\ UNCHANGED <<users, messages, nextId, clock, pc, req, hashed, user, tokens, regOk>>

\* User.messagesFrom(u).
MessagesFrom(u) ==
    /\ \E o \in messagesFrom(users, messages, u) : ret' = Call("messagesFrom", u, o)
    /\ UNCHANGED <<users, messages, nextId, clock, pc, req, hashed, user, tokens, regOk>>

\* User.messagesTo(u).
MessagesTo(u) ==
    /\ \E o \in messagesTo(users, messages, u) : ret' = Call("messagesTo", u, o)
    /\ UNCHANGED <<users, messages, nextId, clock, pc, req, hashed, user, tokens, regOk>>

DirNext ==
    \/ Tick
    \/ \E b \in DirBodies : Register(b)
    \/ \E u \in DirUsernames : UpdateLoginTimestamp(u)
    \/ \E u, v \in DirUsernames : Send(u, v)
    \/ All
    \/ \E u \in DirUsernames : Get(u)
    \/ \E u \in DirUsernames : MessagesFrom(u)
    \/ \E u \in DirUsernames : MessagesTo(u)

DirSpec == Init /\ [][DirNext]_vars

\* ============================================================= claims (Spec)
\* A user u was registered with password pw.
RegisteredWith(u, pw) == \E i \in 1..Len(regOk[u]) : regOk[u][i] = pw

\* Request p's call of User.authenticate ends in this step.
AuthenticateEnds(p) ==
    /\ pc'[p] \in {"stamp", "rejected"}
    /\ \/ pc[p] = "auth_compare"
       \/ pc[p] = "idle" /\ ret'.op = "authenticate"

\* Request p's call of User.register ends in this step.
RegisterEnds(p) == pc[p] = "reg_insert" /\ pc'[p] # "reg_insert"

\* Request p's call of User.updateLoginTimestamp ends in this step.
UpdateEnds(p) ==
    \/ pc[p] = "stamp" /\ pc'[p] # "stamp"
    \/ pc[p] = "idle" /\ pc'[p] \in {"returned", "threw"}

\* C1: User.authenticate(username, password) returns true exactly when a user
\* with that username is registered and the password is the one given at its
\* registration; for a wrong password or an absent username it returns false,
\* without raising an error.
C1_AuthenticateReturnsBoolean ==
    [][\A p \in Requests :
         AuthenticateEnds(p) =>
           ret' = Call("authenticate", Columns(req'[p], {"username", "password"}),
                       Returned(JsBool(RegisteredWith(req'[p].username, req'[p].password))))
      ]_vars

\* C2: of the User.register calls with one username, sequential or concurrent,
\* exactly one succeeds and every other fails with the store's unique
\* violation (DuplicateUser), leaving the table as it was; the users table
\* never holds two rows with one username.
C2_OneRegistrationPerUsername ==
    /\ [](\A u \in Usernames :
            /\ Cardinality(RowsOf(users, u)) <= 1
            /\ Len(regOk[u]) = Cardinality(RowsOf(users, u)))
    /\ [][\A p \in Requests :
            RegisterEnds(p) =>
              /\ ret'.op = "register" /\ ret'.arg = req[p]
              /\ IF RowsOf(users, req[p].username) # {}
                 THEN /\ users' = users
                      /\ regOk' = regOk
                      /\ ret'.outcome.threw
                      /\ ret'.outcome.value.kind = "unique_violation"
                      /\ pc'[p] = "error"
                 ELSE /\ ~ ret'.outcome.threw
                      /\ users \subseteq users'
                      /\ Cardinality(users') = Cardinality(users) + 1
                      /\ \E r \in users' \ users :
                           /\ r.username = req[p].username
                           /\ r.first_name = req[p].first_name
                           /\ bcrypt_compare(req[p].password, r.password)
         ]_vars

\* C2's case: two requests registered one username concurrently; one has
\* inserted its row, the other's INSERT has just been refused.
C2_Witness ==
    \E p, q \in Requests :
        /\ p # q
        /\ pc[p] = "error" /\ pc[q] = "stamp"
        /\ req[p].username = req[q].username
        /\ req[p].password # req[q].password
        /\ ret = Call("register", req[p], Threw(UniqueViolation(req[p].username)))
        /\ \E r \in users : r.username = req[q].username
                            /\ bcrypt_compare(req[q].password, r.password)
                            /\ r.first_name = req[q].first_name

\* The state of the login attempt a request is in.
Phase(at) ==
    CASE at = "idle" -> "Start"
      [] at \in {"auth_compare", "reg_insert", "stamp"} -> "CredentialCheck"
      [] at = "sign" -> "LoginStamped"
      [] at = "issued" -> "TokenIssued"
      [] at \in {"rejected", "error"} -> "Rejected"
      [] OTHER -> "DirectCall"

\* Start -> CredentialCheck -> {Rejected | LoginStamped -> TokenIssued}; the
\* first await of the credential check ends in the step the request arrives
\* in, and an attempt that is over makes room for the next.
PhaseSteps ==
    {<<"Start", "CredentialCheck">>, <<"Start", "Rejected">>,
     <<"CredentialCheck", "CredentialCheck">>, <<"CredentialCheck", "Rejected">>,
     <<"CredentialCheck", "LoginStamped">>, <<"LoginStamped", "TokenIssued">>,
     <<"Rejected", "Start">>, <<"TokenIssued", "Start">>,
     <<"Start", "DirectCall">>, <<"DirectCall", "Start">>}

LastLogins(us) == {<<r.username, r.last_login_at>> : r \in us}

\* C3: every POST /login or POST /register attempt follows Start ->
\* CredentialCheck -> {Rejected | LoginStamped -> TokenIssued}: a token for a
\* username is issued only in an attempt whose credential check succeeded and
\* only after updateLoginTimestamp for that username succeeded; an attempt
\* that is rejected or fails issues no token and changes no lastLoginAt.
C3_AttemptStateMachine ==
    [][/\ \A p \in Requests :
            /\ pc'[p] # pc[p] => <<Phase(pc[p]), Phase(pc'[p])>> \in PhaseSteps
            \* the credential check succeeds
            /\ (pc'[p] = "stamp" /\ pc[p] # "stamp") =>
                  \/ /\ pc[p] \in {"idle", "auth_compare"}
                     /\ RegisteredWith(req'[p].username, req'[p].password)
                     /\ ret' = Call("authenticate",
                                    Columns(req'[p], {"username", "password"}),
                                    Returned(JsBool(TRUE)))
                     /\ users' = users
                  \/ /\ pc[p] = "reg_insert"
                     /\ \E r \in users' \ users : r.username = req[p].username
            \* the login is stamped
            /\ (pc'[p] = "sign" /\ pc[p] # "sign") =>
                  /\ pc[p] = "stamp"
                  /\ req'[p] = req[p]
                  /\ \E r \in users' : r.username = req[p].username /\ r.last_login_at = clock
                  /\ ret'.op = "updateLoginTimestamp" /\ ret'.arg = req[p].username
                  /\ ~ ret'.outcome.threw
            \* the token is issued
            /\ (pc'[p] = "issued" /\ pc[p] # "issued") =>
                  /\ pc[p] = "sign"
                  /\ tokens' = tokens \cup {jwt_sign(req[p].username)}
            \* the attempt is rejected or fails
            /\ (Phase(pc'[p]) = "Rejected" /\ pc[p] # pc'[p]) =>
                  /\ tokens' = tokens
                  /\ LastLogins(users') = LastLogins(users)
            \* while its credentials are checked an attempt stamps nothing
            /\ (Phase(pc[p]) \in {"Start", "CredentialCheck"} /\ pc[p] # "stamp"
                /\ pc[p] # pc'[p] /\ Phase(pc'[p]) # "DirectCall") =>
                  /\ tokens' = tokens
                  /\ \A r \in users : r \in users'
       /\ tokens' # tokens => \E p \in Requests : pc[p] = "sign" /\ pc'[p] = "issued"
      ]_vars

\* C3's case: one attempt has its token, issued after the stamp, while another
\* attempt for the same username with another password was rejected.
C3_Witness ==
    \E p, q \in Requests :
        /\ pc[p] = "issued" /\ pc[q] = "rejected"
        /\ req[p].username = req[q].username
        /\ jwt_sign(req[p].username) \in tokens
        /\ \E r \in users : r.username = req[p].username /\ r.last_login_at > r.join_at

\* C7: every stored user has lastLoginAt >= joinedAt; joinedAt never changes;
\* every updateLoginTimestamp call on an existing user succeeds and stores
\* and returns a lastLoginAt >= the value stored before the call.
C7_LoginTimestamps ==
    /\ [](\A r \in users : r.last_login_at >= r.join_at)
    /\ [][/\ \A r \in users : \E r2 \in users' :
                /\ r2.username = r.username
                /\ r2.join_at = r.join_at
                /\ r2.last_login_at >= r.last_login_at
          /\ \A p \in Requests :
                (UpdateEnds(p) /\ RowsOf(users, req'[p].username) # {}) =>
                   /\ pc'[p] \in {"sign", "returned"}
                   /\ ~ ret'.outcome.threw
                   /\ \A r \in RowsOf(users, req'[p].username) :
                        /\ ret'.outcome.value.object.last_login_at >= r.last_login_at
                        /\ [r EXCEPT !.last_login_at =
                               ret'.outcome.value.object.last_login_at] \in users'
         ]_vars

\* C7's case: updateLoginTimestamp, called on its own, has returned a stamp
\* later than the user's registration while another call for that user is
\* under way.
C7_Witness ==
    \E p, q \in Requests :
        /\ p # q
        /\ pc[p] = "returned" /\ pc[q] = "stamp"
        /\ req[p].username = req[q].username
        /\ ~ ret.outcome.threw
        /\ ret.op = "updateLoginTimestamp"
        /\ \E r \in users :
             /\ r.username = req[p].username
             /\ r.last_login_at = ret.outcome.value.object.last_login_at
             /\ r.last_login_at > r.join_at

\* C8: User.register with an empty username or an empty password fails with
\* ValidationError, inserts no row, and POST /register issues no token.
C8_EmptyCredentialsRefused ==
    /\ \A r \in users : r.username # "" /\ ~ bcrypt_compare("", r.password)
    /\ \A t \in tokens : t.username # ""
    /\ (ret.op = "register" /\ (ret.arg.username = "" \/ ret.arg.password = "")) =>
          ret.outcome.threw /\ ret.outcome.value.kind = "ValidationError"

\* ============================================================= claims (DirSpec)
\* The array a call returned; nothing when it threw.
Items(outcome) == IF outcome.threw THEN <<>> ELSE outcome.value.items

\* C4 as stated: the value a successful User.register returns holds only the
\* profile fields (username, first name, last name, phone), never the
\* password hash or the plaintext password.
C4_RegisterReturnsProfileOnly ==
    (ret.op = "register" /\ ~ ret.outcome.threw) =>
        /\ DOMAIN ret.outcome.value.object = ProfileColumns
        /\ \A c \in DOMAIN ret.outcome.value.object :
              /\ ret.outcome.value.object[c] # ret.arg.password
              /\ ~ bcrypt_compare(ret.arg.password, ret.outcome.value.object[c])

\* C4 amended: the value a successful User.register returns holds the profile
\* fields it was called with and, as password, the hash stored in the new
\* row; it never holds the plaintext password.
C4_RegisterReturnsRowWithHash ==
    (ret.op = "register" /\ ~ ret.outcome.threw) =>
        LET o == ret.outcome.value.object
        IN /\ DOMAIN o = ProfileColumns \cup {"password"}
           /\ Columns(o, ProfileColumns) = Columns(ret.arg, ProfileColumns)
           /\ o.password # ret.arg.password
           /\ bcrypt_compare(ret.arg.password, o.password)
           /\ \E r \in users : r.username = o.username /\ r.password = o.password

\* C4's case: User.register has just returned the row it created for alice.
C4_Witness ==
    /\ ret.op = "register" /\ ~ ret.outcome.threw
    /\ ret.arg = AliceBody
    /\ ret.outcome.value.object.password = bcrypt_hash("secret1")

\* C5: a stored message from A to B is in User.messagesFrom(u) exactly when
\* u = A, then once and with to_user B's profile; it is in User.messagesTo(u)
\* exactly when u = B, then once and with from_user A's profile (also when
\* A = B).
C5_MessagesFromAndTo ==
    (ret.op \in {"messagesFrom", "messagesTo"}) =>
        \A m \in messages :
            LET items == Items(ret.outcome)
                hits == {i \in 1..Len(items) : items[i].id = m.id}
                mine == IF ret.op = "messagesFrom" THEN m.from_username ELSE m.to_username
                other == IF ret.op = "messagesFrom" THEN m.to_username ELSE m.from_username
                key == IF ret.op = "messagesFrom" THEN "to_user" ELSE "from_user"
            IN IF mine = ret.arg
               THEN /\ Cardinality(hits) = 1
                    /\ \A i \in hits :
                         /\ DOMAIN items[i] = {"id", "body", "sent_at", "read_at", key}
                         /\ items[i].body = m.body /\ items[i].sent_at = m.sent_at
                         /\ items[i].read_at = m.read_at
                         /\ items[i][key].username = other
                         /\ \E r \in users : r.username = other
                                             /\ items[i][key] = Columns(r, ProfileColumns)
               ELSE hits = {}

\* C5's case: bob has a message from alice and one he sent to himself, and
\* User.messagesTo("bob") has returned both.
C5_Witness ==
    /\ ret.op = "messagesTo" /\ ret.arg = "bob" /\ ~ ret.outcome.threw
    /\ Len(ret.outcome.value.items) = 2
    /\ \E i, j \in 1..2 : /\ ret.outcome.value.items[i].from_user.username = "alice"
                          /\ ret.outcome.value.items[j].from_user.username = "bob"
    /\ \E m \in messages : m.from_username = "bob" /\ m.to_username = "bob"

\* C6: User.get(username) fails with 404 when no user has that username;
\* otherwise it returns exactly that user's stored username, first name, last
\* name, phone, joinedAt and lastLoginAt, and never the password hash.
C6_Get ==
    (ret.op = "get") =>
        IF RowsOf(users, ret.arg) = {}
        THEN ret.outcome.threw /\ ret.outcome.value.status = 404
        ELSE /\ ~ ret.outcome.threw
             /\ "password" \notin DOMAIN ret.outcome.value.object
             /\ \E r \in users : /\ r.username = ret.arg
                                 /\ ret.outcome.value.object = Columns(r, GetColumns)

\* C6's case: User.get has returned a user who has logged in since joining,
\* while another user is stored too.
C6_Witness ==
    /\ ret.op = "get" /\ ~ ret.outcome.threw
    /\ ret.outcome.value.object.last_login_at > ret.outcome.value.object.join_at
    /\ Cardinality(users) = 2

\* C9: User.messagesFrom(username) fails with 404 exactly when no stored
\* message has from_username = username, User.messagesTo(username) exactly
\* when none has to_username = username; otherwise the call returns a
\* non-empty array.
C9_NoMessages ==
    /\ (ret.op = "messagesFrom") =>
          /\ ret.outcome.threw <=> ~ \E m \in messages : m.from_username = ret.arg
          /\ ret.outcome.threw => ret.outcome.value.status = 404
          /\ ~ ret.outcome.threw => Len(ret.outcome.value.items) > 0
    /\ (ret.op = "messagesTo") =>
          /\ ret.outcome.threw <=> ~ \E m \in messages : m.to_username = ret.arg
          /\ ret.outcome.threw => ret.outcome.value.status = 404
          /\ ~ ret.outcome.threw => Len(ret.outcome.value.items) > 0

\* C9's case: alice is registered and has received a message but sent none,
\* and User.messagesFrom("alice") has thrown.
C9_Witness ==
    /\ ret.op = "messagesFrom" /\ ret.arg = "alice" /\ ret.outcome.threw
    /\ RowsOf(users, "alice") # {}
    /\ \E m \in messages : m.to_username = "alice"

\* C10: User.all() returns the public profile of every stored user and of no
\* one else, never a password hash; with no user stored it returns an empty
\* array and raises no error.
C10_All ==
    (ret.op = "all") =>
        /\ ~ ret.outcome.threw
        /\ LET items == ret.outcome.value.items
           IN /\ Len(items) = Cardinality(users)
              /\ {items[i] : i \in 1..Len(items)} = {Columns(r, ProfileColumns) : r \in users}
              /\ \A i \in 1..Len(items) : DOMAIN items[i] = ProfileColumns

\* C10's case: User.all() has returned the empty array from an empty table.
C10_Witness ==
    /\ ret.op = "all" /\ users = {}
    /\ ret.outcome = Returned(JsArray(<<>>))

====
